---------------------------- MODULE Spec2Model ----------------------------
(***************************************************************************)
(* A model of the SoulTrip backend's trip and location routes              *)
(* (src/trip.py, src/locations.py) over the tables of src/models.py.       *)
(*                                                                         *)
(* Persisted state is the two tables `trips` and `locs`.  A handler has    *)
(* one suspension point, the persistence layer, so a request is either     *)
(* run whole in one step (Run, RunFail) or in two (Serve, then CommitOk or *)
(* CommitFail):                                                            *)
(*   - the handler's queries, validation and session changes, which        *)
(*     answer at once when the handler returns before commit;              *)
(*   - db.session.commit(), which flushes the session's unit of work in    *)
(*     one database transaction, or fails and is rolled back.              *)
(* While one request is suspended at its commit, the requests of other     *)
(* workers run whole: this gives every interleaving of two requests.       *)
(* Coordinates are integers in units of 0.00001 degree, dates are day      *)
(* numbers, distances are integers in millimetres.                         *)
(***************************************************************************)
EXTENDS Integers, Sequences, FiniteSets, TLC

(***************************************************************************)
(* Bounds of the model.                                                    *)
(***************************************************************************)
MaxTripId == 2      \* trip ids are drawn from 1..MaxTripId
MaxLocId == 2       \* location ids are drawn from 1..MaxLocId
MaxDay == 2         \* dates are the days 1..MaxDay
MaxItems == 2       \* a bulk request carries at most MaxItems items

Users == {1, 2}     \* user.id of the two signed-up accounts

VARIABLES
    trips,   \* table trip: id -> [destination, start_date, end_date, user_id]
    locs,    \* table location: id -> [name, latitude, longitude, trip_id]
    pend,    \* the request suspended at db.session.commit(), or Idle
    resp,    \* the response sent by the last step (NoResp when it sent none)
    sess     \* the login sessions: client -> user.id logged in, 0 when none

vars == <<trips, locs, pend, resp, sess>>

\* The clients (browsers, each with its session cookie), and the sessions
\* when client u is logged in as user u.
Clients == Users
AllLoggedIn == [c \in Clients |-> c]

\* Mutant of LoggedIn: a route without @login_required.
LoggedIn_Anyone(u) == TRUE

\* @login_required, passed by a request of user u: a session is logged in
\* as u.
LoggedIn(u) == \E c \in Clients : sess[c] = u

(***************************************************************************)
(* JSON values of a request body.  A field is a record [k, n]:             *)
(*   k = "absent"  the key is not in the body                              *)
(*   k = "null"    JSON null                                               *)
(*   k = "num"     a JSON number n                                         *)
(*   k = "numstr"  a string that spells the number n                       *)
(*   k = "badstr"  a string that spells no number (or no date)             *)
(*   k = "nan"     the JSON literal NaN, which Python's json accepts       *)
(* A date field uses "numstr" for a well-formed YYYY-MM-DD string of day n.*)
(***************************************************************************)
J(k, n) == [k |-> k, n |-> n]
Absent == J("absent", 0)
Null == J("null", 0)
BadStr == J("badstr", 0)
NaN == J("nan", 0)
Num(n) == J("num", n)
NumStr(n) == J("numstr", n)
NoStr == "<absent>"          \* a string field whose key is not in the body

Has(j) == j.k # "absent"

\* Python's float(x): the exception it raises, or the float (NaN kept apart).
Float(j) ==
    CASE j.k \in {"num", "numstr"} -> [exc |-> "none", nan |-> FALSE, v |-> j.n]
      [] j.k = "nan"               -> [exc |-> "none", nan |-> TRUE, v |-> 0]
      [] j.k = "badstr"            -> [exc |-> "ValueError", nan |-> FALSE, v |-> 0]
      [] OTHER                     -> [exc |-> "TypeError", nan |-> FALSE, v |-> 0]

\* lo <= x <= hi on Python floats: every comparison with NaN is False.
InRange(f, lo, hi) == ~f.nan /\ lo <= f.v /\ f.v <= hi

\* -90 <= lat <= 90 and -180 <= lng <= 180, in units of 0.00001 degree.
LatOk(f) == InRange(f, -9000000, 9000000)
LngOk(f) == InRange(f, -18000000, 18000000)

\* datetime.strptime(x, '%Y-%m-%d').date(): a str is parsed or raises
\* ValueError, anything else raises TypeError.
StrpDate(j) ==
    CASE j.k = "numstr" -> [exc |-> "none", v |-> j.n]
      [] j.k = "badstr" -> [exc |-> "ValueError", v |-> 0]
      [] OTHER          -> [exc |-> "TypeError", v |-> 0]

(***************************************************************************)
(* The tables.                                                             *)
(***************************************************************************)
SetMax(S) == CHOOSE m \in S : \A x \in S : x <= m

\* SQLite's INTEGER PRIMARY KEY (the models declare no AUTOINCREMENT): a new
\* row gets one more than the largest id now in the table, 1 in an empty one,
\* so the id of a deleted last row is given out again.
NextId(table) == IF DOMAIN table = {} THEN 1 ELSE SetMax(DOMAIN table) + 1

\* Mutant of OwnedTrip: the lookup by bare primary key, without user_id.
OwnedTrip_ByIdOnly(T, u, t) == t \in DOMAIN T

\* Trip.query.filter_by(id=trip_id, user_id=current_user.id).first()
OwnedTrip(T, u, t) == t \in DOMAIN T /\ T[t].user_id = u

\* Mutant of OwnedLoc: the location by bare primary key, without the join.
OwnedLoc_ByIdOnly(T, L, u, l) == l \in DOMAIN L

\* Location.query.join(Trip).filter(Location.id == location_id,
\*                                  Trip.user_id == current_user.id).first()
OwnedLoc(T, L, u, l) == l \in DOMAIN L /\ OwnedTrip(T, u, L[l].trip_id)

\* trip.locations: the rows of location whose trip_id is the trip's id.
TripLocs(L, t) == {l \in DOMAIN L : L[l].trip_id = t}

\* Mutant of UserLocs: the query without the join, every user's locations.
UserLocs_AllUsers(T, L, u) == DOMAIN L

\* Location.query.join(Trip).filter(Trip.user_id == current_user.id).all()
UserLocs(T, L, u) == {l \in DOMAIN L : OwnedTrip(T, u, L[l].trip_id)}

\* A set of ids as the sequence of its elements in id order.
RECURSIVE SeqOf(_)
SeqOf(S) == IF S = {} THEN <<>>
            ELSE LET m == SetMax(S) IN Append(SeqOf(S \ {m}), m)


(***************************************************************************)
(* The session's unit of work, flushed by db.session.commit(): the rows    *)
(* added (db.session.add), the loaded rows with changed attributes, and    *)
(* the rows marked deleted (db.session.delete).                            *)
(***************************************************************************)
NoTxn == [tripIns |-> <<>>, locIns |-> <<>>, tripUpd |-> {}, locUpd |-> {},
          tripDel |-> {}, locDel |-> {}]

\* What a handler has done when it returns or reaches db.session.commit():
\* commit = FALSE: it returned (status, error) without committing;
\* commit = TRUE : it commits txn and then returns status.
Return(status, error) ==
    [commit |-> FALSE, status |-> status, error |-> error, ids |-> <<>>,
     count |-> 0, txn |-> NoTxn]
ReturnList(ids) ==
    [commit |-> FALSE, status |-> 200, error |-> "", ids |-> ids,
     count |-> 0, txn |-> NoTxn]
Commit(status, txn) ==
    [commit |-> TRUE, status |-> status, error |-> "", ids |-> <<>>,
     count |-> 0, txn |-> txn]

\* An exception no except clause of the handler catches: Flask answers 500.
Unhandled == Return(500, "Internal Server Error")

TripNotFound == Return(404, "Trip not found or access denied")
LocNotFound == Return(404, "Location not found or access denied")

(***************************************************************************)
(* src/trip.py                                                             *)
(***************************************************************************)
\* A trip body: destination is a string or NoStr, the dates are JSON values.
TripBody(d, s, e) == [destination |-> d, start_date |-> s, end_date |-> e]
EmptyTripBody(b) ==
    b.destination = NoStr /\ ~Has(b.start_date) /\ ~Has(b.end_date)

\* The except clauses of create_trip and update_trip for a failed strptime.
DateError(exc) ==
    IF exc = "ValueError" THEN Return(400, "Invalid date format. Use YYYY-MM-DD")
    ELSE Unhandled

create_trip(u, b) ==
    IF b.destination = NoStr \/ ~Has(b.start_date) \/ ~Has(b.end_date)
    THEN Return(400, "Missing required trip fields")
    ELSE LET s == StrpDate(b.start_date)
             e == StrpDate(b.end_date)
         IN  IF s.exc # "none" THEN DateError(s.exc)
             ELSE IF e.exc # "none" THEN DateError(e.exc)
             ELSE IF e.v < s.v
             THEN Return(400, "End date cannot be before start date")
             ELSE Commit(201, [NoTxn EXCEPT !.tripIns =
                      <<[destination |-> b.destination, start_date |-> s.v,
                         end_date |-> e.v, user_id |-> u]>>])

get_trip(T, L, u, t) ==
    IF ~OwnedTrip(T, u, t) THEN TripNotFound
    ELSE ReturnList(SeqOf(TripLocs(L, t)))

\* The attributes of a loaded row whose value the handler changed.
TripDirty(old, new) ==
    {c \in {"destination", "start_date", "end_date"} : old[c] # new[c]}

\* The date check of update_trip, made on the session's trip object.
DatesOk(trip) == ~(trip.end_date < trip.start_date)

update_trip(T, u, t, b) ==
    IF ~OwnedTrip(T, u, t) THEN TripNotFound
    ELSE IF EmptyTripBody(b) THEN Return(400, "No data provided")
    ELSE LET s == StrpDate(b.start_date)
             e == StrpDate(b.end_date)
             t1 == IF b.destination # NoStr
                   THEN [T[t] EXCEPT !.destination = b.destination] ELSE T[t]
             t2 == IF Has(b.start_date)
                   THEN [t1 EXCEPT !.start_date = s.v] ELSE t1
             t3 == IF Has(b.end_date)
                   THEN [t2 EXCEPT !.end_date = e.v] ELSE t2
         IN  IF Has(b.start_date) /\ s.exc # "none" THEN DateError(s.exc)
             ELSE IF Has(b.end_date) /\ e.exc # "none" THEN DateError(e.exc)
             ELSE IF ~DatesOk(t3)
             THEN Return(400, "End date cannot be before start date")
             ELSE Commit(200, [NoTxn EXCEPT !.tripUpd =
                      IF TripDirty(T[t], t3) = {} THEN {}
                      ELSE {[id |-> t, cols |-> TripDirty(T[t], t3), row |-> t3]}])

\* Mutant of delete_trip: the trip is deleted without its locations.
delete_trip_NoCascade(T, L, u, t) ==
    IF ~OwnedTrip(T, u, t) THEN TripNotFound
    ELSE Commit(200, [NoTxn EXCEPT !.tripDel = {t}])

delete_trip(T, L, u, t) ==
    IF ~OwnedTrip(T, u, t) THEN TripNotFound
    ELSE Commit(200, [NoTxn EXCEPT !.locDel = TripLocs(L, t), !.tripDel = {t}])

(***************************************************************************)
(* src/locations.py                                                        *)
(***************************************************************************)
\* A location body: name is a string or NoStr, the coordinates are JSON
\* values, trip_id (read by create_location only) is an id or 0 when absent.
LocBody(n, lat, lng, t) ==
    [name |-> n, latitude |-> lat, longitude |-> lng, trip_id |-> t]
EmptyLocBody(b) ==
    b.name = NoStr /\ ~Has(b.latitude) /\ ~Has(b.longitude) /\ b.trip_id = 0
MissingLocFields(b) ==
    b.name = NoStr \/ ~Has(b.latitude) \/ ~Has(b.longitude)

\* The except clauses of the location handlers for a failed float().
CoordError(exc) ==
    IF exc = "ValueError" THEN Return(400, "Invalid coordinate format")
    ELSE Unhandled

\* Mutant of BadCoords: rejects only when both coordinates are out of range.
BadCoords_Both(lat, lng) == ~LatOk(lat) /\ ~LngOk(lng)

\* not (-90 <= lat <= 90) or not (-180 <= lng <= 180)
BadCoords(lat, lng) == ~LatOk(lat) \/ ~LngOk(lng)

\* The try block shared by create_location and add_location_to_trip.
NewLocation(b, t) ==
    LET lat == Float(b.latitude)
        lng == Float(b.longitude)
    IN  IF lat.exc # "none" THEN CoordError(lat.exc)
        ELSE IF lng.exc # "none" THEN CoordError(lng.exc)
        ELSE IF BadCoords(lat, lng) THEN Return(400, "Invalid coordinates")
        ELSE Commit(201, [NoTxn EXCEPT !.locIns =
                 <<[name |-> b.name, latitude |-> lat.v, longitude |-> lng.v,
                    trip_id |-> t]>>])

create_location(T, u, b) ==
    IF MissingLocFields(b) \/ b.trip_id = 0
    THEN Return(400, "Missing required location fields")
    ELSE IF ~OwnedTrip(T, u, b.trip_id) THEN TripNotFound
    ELSE NewLocation(b, b.trip_id)

add_location_to_trip(T, u, t, b) ==
    IF ~OwnedTrip(T, u, t) THEN TripNotFound
    ELSE IF MissingLocFields(b)
    THEN Return(400, "Missing required location fields")
    ELSE NewLocation(b, t)

get_all_locations(T, L, u) == ReturnList(SeqOf(UserLocs(T, L, u)))

get_trip_locations(T, L, u, t) ==
    IF ~OwnedTrip(T, u, t) THEN TripNotFound
    ELSE ReturnList(SeqOf(TripLocs(L, t)))

\* Mutant of get_location: another user's location is refused, not "not found".
get_location_Forbidden(T, L, u, l) ==
    IF l \notin DOMAIN L THEN LocNotFound
    ELSE IF ~OwnedLoc(T, L, u, l) THEN Return(403, "Forbidden")
    ELSE ReturnList(<<l>>)

get_location(T, L, u, l) ==
    IF ~OwnedLoc(T, L, u, l) THEN LocNotFound
    ELSE ReturnList(<<l>>)

\* Mutant of update_location: the name is committed as soon as it is set,
\* and a latitude out of range is refused after that.
update_location_SavesName(T, L, u, l, b) ==
    IF ~OwnedLoc(T, L, u, l) THEN LocNotFound
    ELSE IF b.name # NoStr /\ Has(b.latitude) /\ ~LatOk(Float(b.latitude))
    THEN Commit(400, [NoTxn EXCEPT !.locUpd =
             {[id |-> l, cols |-> {"name"},
               row |-> [L[l] EXCEPT !.name = b.name]]}])
    ELSE Return(400, "No data provided")

LocDirty(old, new) ==
    {c \in {"name", "latitude", "longitude"} : old[c] # new[c]}

update_location(T, L, u, l, b) ==
    IF ~OwnedLoc(T, L, u, l) THEN LocNotFound
    ELSE IF EmptyLocBody(b) THEN Return(400, "No data provided")
    ELSE LET lat == Float(b.latitude)
             lng == Float(b.longitude)
             l1 == IF b.name # NoStr THEN [L[l] EXCEPT !.name = b.name] ELSE L[l]
             l2 == IF Has(b.latitude) THEN [l1 EXCEPT !.latitude = lat.v] ELSE l1
             l3 == IF Has(b.longitude) THEN [l2 EXCEPT !.longitude = lng.v] ELSE l2
         IN  IF Has(b.latitude) /\ lat.exc # "none" THEN CoordError(lat.exc)
             ELSE IF Has(b.latitude) /\ ~LatOk(lat)
             THEN Return(400, "Invalid latitude")
             ELSE IF Has(b.longitude) /\ lng.exc # "none" THEN CoordError(lng.exc)
             ELSE IF Has(b.longitude) /\ ~LngOk(lng)
             THEN Return(400, "Invalid longitude")
             ELSE Commit(200, [NoTxn EXCEPT !.locUpd =
                      IF LocDirty(L[l], l3) = {} THEN {}
                      ELSE {[id |-> l, cols |-> LocDirty(L[l], l3), row |-> l3]}])

delete_location(T, L, u, l) ==
    IF ~OwnedLoc(T, L, u, l) THEN LocNotFound
    ELSE Commit(200, [NoTxn EXCEPT !.locDel = {l}])

\* The loop of bulk_add_locations over the items from position i on:
\* an item with a missing key, a float() ValueError or an out-of-range
\* coordinate is skipped; any other exception of float() leaves the loop.
RECURSIVE BulkLoop(_, _, _, _)
BulkLoop(items, i, t, added) ==
    IF i > Len(items) THEN [exc |-> "none", added |-> added]
    ELSE LET b == items[i]
             lat == Float(b.latitude)
             lng == Float(b.longitude)
         IN  IF MissingLocFields(b) THEN BulkLoop(items, i + 1, t, added)
             ELSE IF lat.exc = "ValueError" THEN BulkLoop(items, i + 1, t, added)
             ELSE IF lat.exc # "none" THEN [exc |-> lat.exc, added |-> added]
             ELSE IF lng.exc = "ValueError" THEN BulkLoop(items, i + 1, t, added)
             ELSE IF lng.exc # "none" THEN [exc |-> lng.exc, added |-> added]
             ELSE IF BadCoords(lat, lng) THEN BulkLoop(items, i + 1, t, added)
             ELSE BulkLoop(items, i + 1, t, Append(added,
                      [name |-> b.name, latitude |-> lat.v,
                       longitude |-> lng.v, trip_id |-> t]))

bulk_add_locations(T, u, t, items) ==
    IF ~OwnedTrip(T, u, t) THEN TripNotFound
    ELSE IF items = <<>>
    THEN Return(400, "Invalid data format. Expected list of locations")
    ELSE LET r == BulkLoop(items, 1, t, <<>>)
         IN  IF r.exc # "none" THEN Unhandled
             ELSE IF r.added = <<>>
             THEN Return(400, "No valid locations provided")
             ELSE [Commit(201, [NoTxn EXCEPT !.locIns = r.added])
                      EXCEPT !.count = Len(r.added)]

(***************************************************************************)
(* get_nearby_locations and haversine_distance.  Distances and radii are   *)
(* in millimetres (10^-6 km); round(distance, 2) is in units of 0.01 km.   *)
(***************************************************************************)
\* The points the model places locations and centers at, as
\* <<latitude, longitude>> in units of 0.00001 degree.
HomePt == <<3501000, 13571000>>      \* 35.01, 135.71
NearPt == <<3500000, 13570000>>      \* 35.0,  135.7
FarPt == <<3600000, 13570000>>       \* 36.0,  135.7
NearerPt == <<3500001, 13570000>>    \* 35.00001, 135.7

\* haversine_distance on the model's points: the value the function returns
\* in IEEE doubles (r = 6371), rounded up to the next millimetre.
\*   (35.01, 135.71)-(35.0, 135.7)   1.4373543539865874 km
\*   (35.01, 135.71)-(36.0, 135.7) 110.08669875050329 km
\*   (35.0, 135.7)-(36.0, 135.7)   111.19492664455889 km
\*   (35.01, 135.71)-(35.00001, 135.7) 1.4364942783120487 km
\*   (35.0, 135.7)-(35.00001, 135.7)   0.001111949267305623 km
\*   (36.0, 135.7)-(35.00001, 135.7) 111.19381469529158 km
Haversine(lat1, lon1, lat2, lon2) ==
    LET ends == {<<lat1, lon1>>, <<lat2, lon2>>}
    IN  CASE Cardinality(ends) = 1  -> 0
          [] ends = {HomePt, NearPt} -> 1437355
          [] ends = {HomePt, FarPt}  -> 110086699
          [] ends = {NearPt, FarPt}  -> 111194927
          [] ends = {HomePt, NearerPt} -> 1436495
          [] ends = {NearPt, NearerPt} -> 1112
          [] ends = {FarPt, NearerPt}  -> 111193815

\* round(distance, 2)
Round2(d) == (d + 5000) \div 10000

\* radius = float(request.args.get('radius', 10.0))
DefaultRadius == 10000000

\* The query arguments of /api/locations/nearby.
NearbyArgs(lat, lng, radius) ==
    [latitude |-> lat, longitude |-> lng, radius |-> radius]

\* list.sort(key=lambda x: x['distance']): a stable sort, here by insertion
\* of each entry behind the entries whose key is not larger.
InsertByDistance(sorted, x) ==
    LET k == Cardinality({i \in 1..Len(sorted) :
                             sorted[i].distance <= x.distance})
    IN  SubSeq(sorted, 1, k) \o <<x>> \o SubSeq(sorted, k + 1, Len(sorted))

RECURSIVE SortByDistance(_)
SortByDistance(s) ==
    IF s = <<>> THEN <<>>
    ELSE InsertByDistance(SortByDistance(SubSeq(s, 1, Len(s) - 1)), s[Len(s)])

\* The ids of a list of entries.
Ids(s) == [i \in 1..Len(s) |-> s[i].id]

get_nearby_locations(T, L, u, a) ==
    LET lat == Float(a.latitude)
        lng == Float(a.longitude)
        radius == IF Has(a.radius) THEN Float(a.radius)
                  ELSE [exc |-> "none", nan |-> FALSE, v |-> DefaultRadius]
        Dist(l) == Haversine(lat.v, lng.v, L[l].latitude, L[l].longitude)
        Within(l) == ~radius.nan /\ Dist(l) <= radius.v
        Entry(l) == [id |-> l, distance |-> Round2(Dist(l))]
        found == SelectSeq(SeqOf(UserLocs(T, L, u)), Within)
        nearby == SortByDistance([i \in 1..Len(found) |-> Entry(found[i])])
    IN  IF lat.exc # "none" \/ lng.exc # "none" \/ radius.exc # "none"
        THEN Return(400, "Invalid parameters")
        ELSE IF BadCoords(lat, lng) \/ (~radius.nan /\ radius.v <= 0)
        THEN Return(400, "Invalid coordinates or radius")
        ELSE [ReturnList(Ids(nearby)) EXCEPT !.count = Len(nearby)]

(***************************************************************************)
(* db.session.commit(): the flush of a unit of work, in one transaction.   *)
(***************************************************************************)
\* INSERT of the added rows, in the order they were added.
RECURSIVE InsertRows(_, _)
InsertRows(table, rows) ==
    IF rows = <<>> THEN table
    ELSE InsertRows(table @@ (NextId(table) :> Head(rows)), Tail(rows))

\* Mutant of UpdateRows: the UPDATE writes every column of the row as the
\* request holds it.
UpdateRows_AllColumns(table, upd) ==
    [id \in DOMAIN table |->
        IF \E x \in upd : x.id = id
        THEN (CHOOSE x \in upd : x.id = id).row
        ELSE table[id]]

\* Mutant of UpdateRows: the UPDATE has no WHERE clause and writes the
\* changed columns to every row.
UpdateRows_NoWhere(table, upd) ==
    [id \in DOMAIN table |->
        IF upd = {} THEN table[id]
        ELSE LET x == CHOOSE x \in upd : TRUE
             IN  [c \in DOMAIN table[id] |->
                     IF c \in x.cols THEN x.row[c] ELSE table[id][c]]]

\* UPDATE <table> SET <changed columns> WHERE id = ?, for each changed row.
UpdateRows(table, upd) ==
    [id \in DOMAIN table |->
        IF \E x \in upd : x.id = id
        THEN LET x == CHOOSE x \in upd : x.id = id
             IN  [c \in DOMAIN table[id] |->
                     IF c \in x.cols THEN x.row[c] ELSE table[id][c]]
        ELSE table[id]]

\* DELETE FROM <table> WHERE id = ?, for each row marked deleted (a DELETE
\* that matches no row only warns).
DeleteRows(table, del) == [id \in DOMAIN table \ del |-> table[id]]

\* An UPDATE that matches no row raises StaleDataError, a SQLAlchemyError.
Stale(T, L, txn) ==
    \/ \E x \in txn.tripUpd : x.id \notin DOMAIN T
    \/ \E x \in txn.locUpd : x.id \notin DOMAIN L

FlushTrips(T, txn) ==
    DeleteRows(UpdateRows(InsertRows(T, txn.tripIns), txn.tripUpd), txn.tripDel)
FlushLocs(L, txn) ==
    DeleteRows(UpdateRows(InsertRows(L, txn.locIns), txn.locUpd), txn.locDel)

\* The ids the flush gives the added rows (trip.id, location.id of the answer).
NewIds(table, rows) == [i \in 1..Len(rows) |-> NextId(table) + i - 1]

\* Mutant of Rollback: no rollback, what the flush wrote stays.
Rollback_KeepsFlushed(table, txnTable) == txnTable

\* except SQLAlchemyError: db.session.rollback(): the tables as they were
\* before this transaction.
Rollback(table, txnTable) == table

(***************************************************************************)
(* Requests and responses.                                                 *)
(***************************************************************************)
\* A request: the route, current_user.id, the id in the URL (0 when the route
\* has none) and, in items, what the check of an answer needs of its input:
\* the list sent to the bulk route, the body of an update, the arguments of
\* a search.
Req(op, u, id) == [op |-> op, user |-> u, id |-> id, items |-> <<>>]
UpdateReq(op, u, id, b) == [op |-> op, user |-> u, id |-> id, items |-> <<b>>]
BulkReq(u, t, items) ==
    [op |-> "bulk_add_locations", user |-> u, id |-> t, items |-> items]

\* A response, with the request it answers: the status, the error message,
\* the ids of the rows in the body, and the number the body reports; `gone`
\* notes the location rows the request's commit deleted.
Response(rq, status, error, ids, count) ==
    [op |-> rq.op, user |-> rq.user, id |-> rq.id, items |-> rq.items,
     status |-> status, error |-> error, ids |-> ids, count |-> count,
     gone |-> {}]

NoResp == Response(Req("none", 0, 0), 0, "", <<>>, 0)
Idle == [rq |-> Req("idle", 0, 0), status |-> 0, count |-> 0, txn |-> NoTxn]

\* The table has room for the rows a transaction adds (the model's cap).
Room(txn) ==
    /\ NextId(trips) + Len(txn.tripIns) - 1 <= MaxTripId
    /\ NextId(locs) + Len(txn.locIns) - 1 <= MaxLocId

\* The answer of a request whose commit succeeded on the tables as they are.
Committed(rq, status, count, txn) ==
    [Response(rq, status, "",
              IF txn.tripIns # <<>> THEN NewIds(trips, txn.tripIns)
              ELSE NewIds(locs, txn.locIns), count)
        EXCEPT !.gone = txn.locDel \cap DOMAIN locs]

\* A request run whole: `out` is what the handler did for rq on the tables as
\* they are now; when it reached db.session.commit(), the commit succeeds.
Run(rq, out) ==
    /\ LoggedIn(rq.user)
    /\ IF out.commit
       THEN /\ Room(out.txn)
            /\ trips' = FlushTrips(trips, out.txn)
            /\ locs' = FlushLocs(locs, out.txn)
            /\ resp' = Committed(rq, out.status, out.count, out.txn)
       ELSE /\ UNCHANGED <<trips, locs>>
            /\ resp' = Response(rq, out.status, out.error, out.ids, out.count)
    /\ UNCHANGED <<pend, sess>>

\* A request suspended at db.session.commit(), while no other one is.
Serve(rq, out) ==
    /\ LoggedIn(rq.user)
    /\ pend = Idle
    /\ out.commit
    /\ pend' = [rq |-> rq, status |-> out.status, count |-> out.count,
                txn |-> out.txn]
    /\ resp' = NoResp
    /\ UNCHANGED <<trips, locs, sess>>

\* db.session.commit() of the suspended request succeeds.
CommitOk ==
    /\ pend # Idle
    /\ ~Stale(trips, locs, pend.txn)
    /\ Room(pend.txn)
    /\ trips' = FlushTrips(trips, pend.txn)
    /\ locs' = FlushLocs(locs, pend.txn)
    /\ pend' = Idle
    /\ resp' = Committed(pend.rq, pend.status, pend.count, pend.txn)
    /\ UNCHANGED sess

\* db.session.commit() raises SQLAlchemyError (a storage failure at any point
\* of the flush, or StaleDataError): the handler rolls back and answers 500.
CommitFail ==
    /\ pend # Idle
    /\ trips' = Rollback(trips, FlushTrips(trips, pend.txn))
    /\ locs' = Rollback(locs, FlushLocs(locs, pend.txn))
    /\ pend' = Idle
    /\ resp' = Response(pend.rq, 500, "Database error", <<>>, 0)
    /\ UNCHANGED sess

\* A query of the handler raises SQLAlchemyError before anything is written:
\* the request answers 500 and the tables are as they were.
QueryFail(rq) ==
    /\ LoggedIn(rq.user)
    /\ resp' = Response(rq, 500, "Internal Server Error", <<>>, 0)
    /\ UNCHANGED <<trips, locs, pend, sess>>

\* A request in mode m: run whole ("whole") or suspended at its commit.
Do(m, rq, out) == IF m = "whole" THEN Run(rq, out) ELSE Serve(rq, out)

(***************************************************************************)
(* One action per route.                                                   *)
(***************************************************************************)
CreateTrip(m, u, b) == Do(m, Req("create_trip", u, 0), create_trip(u, b))
GetTrip(u, t) == Run(Req("get_trip", u, t), get_trip(trips, locs, u, t))
UpdateTrip(m, u, t, b) ==
    Do(m, UpdateReq("update_trip", u, t, b), update_trip(trips, u, t, b))
DeleteTrip(m, u, t) ==
    Do(m, Req("delete_trip", u, t), delete_trip(trips, locs, u, t))
CreateLocation(m, u, b) ==
    Do(m, Req("create_location", u, b.trip_id), create_location(trips, u, b))
AddLocationToTrip(m, u, t, b) ==
    Do(m, Req("add_location_to_trip", u, t),
       add_location_to_trip(trips, u, t, b))
GetAllLocations(u) ==
    Run(Req("get_all_locations", u, 0), get_all_locations(trips, locs, u))
GetTripLocations(u, t) ==
    Run(Req("get_trip_locations", u, t), get_trip_locations(trips, locs, u, t))
GetLocation(u, l) ==
    Run(Req("get_location", u, l), get_location(trips, locs, u, l))
UpdateLocation(m, u, l, b) ==
    Do(m, UpdateReq("update_location", u, l, b),
       update_location(trips, locs, u, l, b))
DeleteLocation(m, u, l) ==
    Do(m, Req("delete_location", u, l), delete_location(trips, locs, u, l))
BulkAddLocations(m, u, t, items) ==
    Do(m, BulkReq(u, t, items), bulk_add_locations(trips, u, t, items))

NearbyReq(u, a) ==
    [op |-> "get_nearby_locations", user |-> u, id |-> 0, items |-> <<a>>]
GetNearbyLocations(u, a) ==
    Run(NearbyReq(u, a), get_nearby_locations(trips, locs, u, a))

(***************************************************************************)
(* src/auth.py: login and logout, and the answer of a route under          *)
(* @login_required to a request without a logged-in session.  A username  *)
(* is the id of its user, 0 when the body has none; user u's password is   *)
(* u, 0 stands for a body without password.                                *)
(***************************************************************************)
Password(u) == u

AuthReq(op, c, name, pw) ==
    [op |-> op, user |-> 0, id |-> 0,
     items |-> <<[client |-> c, username |-> name, password |-> pw]>>]

login(name, pw) ==
    IF name = 0 \/ pw = 0 THEN Return(400, "Missing username or password")
    ELSE IF name \in Users /\ pw = Password(name) THEN Return(200, "")
    ELSE Return(401, "Invalid username or password")

Login(c, name, pw) ==
    LET out == login(name, pw)
    IN  /\ resp' = Response(AuthReq("login", c, name, pw), out.status,
                            out.error, <<>>, 0)
        /\ sess' = IF out.status = 200 THEN [sess EXCEPT ![c] = name] ELSE sess
        /\ UNCHANGED <<trips, locs, pend>>

\* A request of client c without a logged-in session to a route under
\* @login_required: the handler is not entered.
Unauthorized(c, op) ==
    /\ sess[c] = 0
    /\ resp' = Response(AuthReq(op, c, 0, 0), 401, "Unauthorized", <<>>, 0)
    /\ UNCHANGED <<trips, locs, pend, sess>>

Logout(c) ==
    /\ sess[c] # 0
    /\ resp' = Response(AuthReq("logout", c, 0, 0), 200, "", <<>>, 0)
    /\ sess' = [sess EXCEPT ![c] = 0]
    /\ UNCHANGED <<trips, locs, pend>>

TripIds == 1..MaxTripId
LocIds == 1..MaxLocId

(***************************************************************************)
(* Spec: the ownership chain on trips.  From empty tables, two users       *)
(* create, read, rename and delete trips and add locations to them, each   *)
(* request run whole.                                                      *)
(***************************************************************************)
Kyoto == TripBody("Kyoto", NumStr(1), NumStr(1))
Rename == TripBody("Oslo", Absent, Absent)
Gion == LocBody("Gion", Num(3500000), Num(13570000), 0)

Init ==
    /\ trips = <<>>
    /\ locs = <<>>
    /\ pend = Idle
    /\ resp = NoResp
    /\ sess = AllLoggedIn

Next ==
    \E u \in Users :
        \/ CreateTrip("whole", u, Kyoto)
        \/ \E t \in TripIds :
            \/ GetTrip(u, t)
            \/ UpdateTrip("whole", u, t, Rename)
            \/ DeleteTrip("whole", u, t)
            \/ AddLocationToTrip("whole", u, t, Gion)

Spec == Init /\ [][Next]_vars

(***************************************************************************)
(* SpecLoc: the location routes.  Each user owns one trip; both users add, *)
(* read, change and delete locations through every location route, with    *)
(* bodies that are valid, out of range, ill-typed or incomplete, and ask   *)
(* for ids that exist and ids that do not.  The valid coordinates are the  *)
(* ends of the ranges.                                                     *)
(***************************************************************************)
North == LocBody("Gion", Num(9000000), Num(18000000), 0)
South == LocBody("Gion", NumStr(-9000000), NumStr(18000000), 0)
LatOver == LocBody("Gion", Num(9000001), Num(18000000), 0)
LatUnder == LocBody("Gion", NumStr(-9000001), Num(18000000), 0)
LngOver == LocBody("Gion", Num(9000000), Num(18000001), 0)
LngUnder == LocBody("Gion", Num(9000000), Num(-18000001), 0)
LatNaN == LocBody("Gion", NaN, Num(18000000), 0)
LngNaN == LocBody("Gion", Num(9000000), NaN, 0)
LatBad == LocBody("Gion", BadStr, Num(18000000), 0)
LatNull == LocBody("Gion", Null, Num(18000000), 0)
NoName == LocBody(NoStr, Num(9000000), Num(18000000), 0)

NewLocBodies ==
    {North, South, LatOver, LatUnder, LngOver, LngUnder, LatNaN, LngNaN,
     LatBad, LatNull, NoName}

\* Bodies of update_location: any subset of the fields.
OnlyLat(j) == LocBody(NoStr, j, Absent, 0)
OnlyLng(j) == LocBody(NoStr, Absent, j, 0)
UpdLocBodies ==
    {LocBody(NoStr, Absent, Absent, 0), LocBody("Gion", Absent, Absent, 0),
     North, South, LatOver, LngOver,
     OnlyLat(Num(-9000000)), OnlyLat(Num(9000000)), OnlyLat(Num(-9000001)),
     OnlyLat(NaN), OnlyLat(BadStr), OnlyLat(Null),
     OnlyLng(Num(18000000)), OnlyLng(Num(18000001)), OnlyLng(Num(-18000001)),
     OnlyLng(NaN)}

BulkLists == {<<North, LatOver>>, <<LngUnder, South>>, <<LatNaN>>, <<>>}

\* One trip for each user: trip u belongs to user u.
OneTripEach ==
    [u \in Users |-> [destination |-> "Kyoto", start_date |-> 1,
                      end_date |-> 1, user_id |-> u]]

\* The ids a request may name: those of the table and one past it.
AskTripIds == 1..(MaxTripId + 1)
AskLocIds == 1..(MaxLocId + 1)

InitLoc ==
    /\ trips = OneTripEach
    /\ locs = <<>>
    /\ pend = Idle
    /\ resp = NoResp
    /\ sess = AllLoggedIn

NextLoc ==
    \E u \in Users :
        \/ GetAllLocations(u)
        \/ \E t \in AskTripIds :
            \/ GetTripLocations(u, t)
            \/ \E b \in NewLocBodies :
                \/ AddLocationToTrip("whole", u, t, b)
                \/ CreateLocation("whole", u, [b EXCEPT !.trip_id = t])
            \/ \E items \in BulkLists : BulkAddLocations("whole", u, t, items)
        \/ \E l \in AskLocIds :
            \/ GetLocation(u, l)
            \/ DeleteLocation("whole", u, l)
            \/ \E b \in UpdLocBodies : UpdateLocation("whole", u, l, b)

SpecLoc == InitLoc /\ [][NextLoc]_vars

(***************************************************************************)
(* SpecDates: overlapping requests on trip dates.  One user creates trips  *)
(* and changes their dates, one field or both, with well-formed and        *)
(* ill-formed dates; a request may be suspended at its commit while        *)
(* another one runs.                                                       *)
(***************************************************************************)
Modes == {"whole", "suspend"}

Days == 1..MaxDay
DateInputs == {NumStr(d) : d \in Days} \cup {BadStr}

InitDates == Init

NextDates ==
    \/ CommitOk
    \/ CommitFail
    \/ \E m \in Modes, s, e \in DateInputs :
           CreateTrip(m, 1, TripBody("Kyoto", s, e))
    \/ \E m \in Modes, t \in TripIds, j \in DateInputs :
        \/ UpdateTrip(m, 1, t, TripBody(NoStr, j, Absent))
        \/ UpdateTrip(m, 1, t, TripBody(NoStr, Absent, j))
    \/ \E m \in Modes, t \in TripIds, s, e \in DateInputs :
           UpdateTrip(m, 1, t, TripBody(NoStr, s, e))

SpecDates == InitDates /\ [][NextDates]_vars

(***************************************************************************)
(* SpecTxn: the multi-row transactions under storage failures.  One user   *)
(* creates trips, adds locations one by one and in bulk, and deletes       *)
(* locations and trips; a request may be suspended at its commit while     *)
(* another one runs, a commit may fail, and so may a query.                *)
(***************************************************************************)
TxnLists == {<<Gion, LatOver, Gion>>}

InitTxn == Init

NextTxn ==
    \/ CommitOk
    \/ CommitFail
    \/ CreateTrip("whole", 1, Kyoto)
    \/ \E t \in TripIds :
        \/ GetTrip(1, t)
        \/ QueryFail(Req("delete_trip", 1, t))
        \/ \E m \in Modes :
            \/ DeleteTrip(m, 1, t)
            \/ AddLocationToTrip(m, 1, t, Gion)
            \/ \E items \in TxnLists : BulkAddLocations(m, 1, t, items)
        \/ \E items \in TxnLists : QueryFail(BulkReq(1, t, items))
    \/ \E l \in LocIds : DeleteLocation("whole", 1, l)

SpecTxn == InitTxn /\ [][NextTxn]_vars

(***************************************************************************)
(* SpecBulk: bulk inserts.  Each of two users has one trip; they post      *)
(* every list of at most MaxItems items, each item valid, out of range,    *)
(* non-numeric, null or without a name, to their own and the other's trip, *)
(* and list and delete locations.                                          *)
(***************************************************************************)
BulkItems == {North, LatOver, LatBad, LatNull, NoName}
ItemLists == UNION {[1..n -> BulkItems] : n \in 0..MaxItems}

InitBulk == InitLoc

NextBulk ==
    \E u \in Users :
        \/ \E t \in TripIds :
            \/ GetTripLocations(u, t)
            \/ \E items \in ItemLists : BulkAddLocations("whole", u, t, items)
        \/ \E l \in LocIds : DeleteLocation("whole", u, l)

SpecBulk == InitBulk /\ [][NextBulk]_vars

(***************************************************************************)
(* SpecNearby: the search around a point.  Each of two users has one trip; *)
(* they place locations at the model's points, delete them, and search     *)
(* around a point with a radius that is absent, positive, zero or          *)
(* ill-formed.                                                             *)
(***************************************************************************)
At(p) == LocBody("Gion", Num(p[1]), Num(p[2]), 0)
Points == {HomePt, NearPt, FarPt}

Radii == {Absent, NumStr(1000000), NumStr(1437355), NumStr(200000000),
          NumStr(0), BadStr}
Searches ==
    {NearbyArgs(NumStr(p[1]), NumStr(p[2]), r) : p \in {HomePt, NearPt},
                                                 r \in Radii}
      \cup {NearbyArgs(Absent, NumStr(HomePt[2]), Absent),
            NearbyArgs(NumStr(9000001), NumStr(HomePt[2]), Absent)}

InitNearby == InitLoc

NextNearby ==
    \E u \in Users :
        \/ \E a \in Searches : GetNearbyLocations(u, a)
        \/ \E t \in TripIds, p \in Points : AddLocationToTrip("whole", u, t, At(p))
        \/ \E l \in LocIds : DeleteLocation("whole", u, l)

SpecNearby == InitNearby /\ [][NextNearby]_vars

(***************************************************************************)
(* SpecSort: the order of a search result.  As SpecNearby, with locations  *)
(* at the center, at two points whose distances from it differ by less     *)
(* than 0.01 km, and more than once at the same point.                     *)
(***************************************************************************)
SortPoints == {HomePt, NearPt, NearerPt}
SortSearches ==
    {NearbyArgs(NumStr(p[1]), NumStr(p[2]), r) :
        p \in {HomePt, NearPt}, r \in {Absent, NumStr(1000000), NumStr(0)}}

InitSort == InitLoc

NextSort ==
    \E u \in Users :
        \/ \E a \in SortSearches : GetNearbyLocations(u, a)
        \/ \E t \in TripIds, p \in SortPoints :
               AddLocationToTrip("whole", u, t, At(p))
        \/ \E l \in LocIds : DeleteLocation("whole", u, l)

SpecSort == InitSort /\ [][NextSort]_vars

(***************************************************************************)
(* SpecUpdate: partial updates.  Each of two users has one trip with one   *)
(* location; user 1 sends update_trip and update_location with every       *)
(* combination of absent, valid and invalid fields, for its own ids, the   *)
(* other user's and ids that do not exist.                                 *)
(***************************************************************************)
UpdDates == {Absent, NumStr(1), NumStr(MaxDay), BadStr, Null}
UpdTripBodies ==
    {TripBody(d, st, en) : d \in {NoStr, "Oslo"}, st \in UpdDates,
                           en \in UpdDates}

UpdLats == {Absent, Num(-9000000), Num(9000001), BadStr, Null}
UpdLngs == {Absent, Num(-18000000), Num(18000001)}
UpdBodies ==
    {LocBody(n, lat, lng, 0) : n \in {NoStr, "Kamo"}, lat \in UpdLats,
                               lng \in UpdLngs}

\* One location in each user's trip: location u is in trip u.
OneLocEach ==
    [u \in Users |-> [name |-> "Gion", latitude |-> 3500000,
                      longitude |-> 13570000, trip_id |-> u]]

InitUpdate ==
    /\ trips = OneTripEach
    /\ locs = OneLocEach
    /\ pend = Idle
    /\ resp = NoResp
    /\ sess = AllLoggedIn

NextUpdate ==
    \/ \E t \in AskTripIds :
        \/ GetTrip(1, t)
        \/ \E b \in UpdTripBodies : UpdateTrip("whole", 1, t, b)
    \/ \E l \in AskLocIds :
        \/ GetLocation(1, l)
        \/ \E b \in UpdBodies : UpdateLocation("whole", 1, l, b)

SpecUpdate == InitUpdate /\ [][NextUpdate]_vars

(***************************************************************************)
(* SpecArgs: the arguments of a search.  As SpecNearby, with every         *)
(* combination of a latitude, a longitude and a radius that is absent,     *)
(* in range, out of range, not a number, or the string "nan".              *)
(***************************************************************************)
ArgLats == {NumStr(HomePt[1]), NumStr(9000001), NumStr(-9000001), Absent,
            BadStr, NaN}
ArgLngs == {NumStr(HomePt[2]), NumStr(18000001), Absent, NaN}
ArgRadii == {Absent, NumStr(1000000), NumStr(0), NumStr(-1000000), BadStr, NaN}
ArgSearches ==
    {NearbyArgs(lat, lng, r) : lat \in ArgLats, lng \in ArgLngs, r \in ArgRadii}

InitArgs == InitLoc

NextArgs ==
    \E u \in Users :
        \/ \E a \in ArgSearches : GetNearbyLocations(u, a)
        \/ \E t \in TripIds, p \in {HomePt, FarPt} :
               AddLocationToTrip("whole", u, t, At(p))
        \/ \E l \in LocIds : DeleteLocation("whole", u, l)

SpecArgs == InitArgs /\ [][NextArgs]_vars

(***************************************************************************)
(* SpecUsers: overlapping requests of two users.  Each creates, renames    *)
(* and deletes trips and adds locations to them; a request may be          *)
(* suspended at its commit while requests of either user run, and a commit *)
(* may fail.                                                               *)
(***************************************************************************)
InitUsers == Init

NextUsers ==
    \/ CommitOk
    \/ CommitFail
    \/ \E u \in Users :
        \/ CreateTrip("whole", u, Kyoto)
        \/ \E t \in TripIds :
            \/ GetTrip(u, t)
            \/ \E m \in Modes :
                \/ UpdateTrip(m, u, t, Rename)
                \/ DeleteTrip(m, u, t)
                \/ AddLocationToTrip(m, u, t, Gion)

SpecUsers == InitUsers /\ [][NextUsers]_vars

(***************************************************************************)
(* SpecLww: overlapping updates of one user.  User 1 renames its trip and  *)
(* its location, moves the trip's end date and the location's latitude,    *)
(* to a new value or to the stored one; a request may be suspended at its  *)
(* commit while another one runs.  No commit fails.                        *)
(***************************************************************************)
LwwTripBodies ==
    {TripBody("Oslo", Absent, Absent), TripBody("Kyoto", Absent, Absent),
     TripBody(NoStr, Absent, NumStr(MaxDay)), TripBody(NoStr, Absent, NumStr(1))}
LwwLocBodies ==
    {LocBody("Kamo", Absent, Absent, 0), LocBody("Gion", Absent, Absent, 0),
     OnlyLat(Num(-9000000)), OnlyLat(Num(3500000))}

InitLww == InitUpdate

NextLww ==
    \/ CommitOk
    \/ \E m \in Modes :
        \/ \E t \in TripIds, b \in LwwTripBodies : UpdateTrip(m, 1, t, b)
        \/ \E l \in LocIds, b \in LwwLocBodies : UpdateLocation(m, 1, l, b)

SpecLww == InitLww /\ [][NextLww]_vars

(***************************************************************************)
(* SpecAuth: sessions.  No client is logged in at first; the clients log   *)
(* in with right and wrong passwords, known and unknown usernames, log     *)
(* out, and send requests to the trip and location routes with and without *)
(* a logged-in session.                                                    *)
(***************************************************************************)
LoginNames == Users \cup {0, 3}
LoginPasswords == {Password(u) : u \in Users} \cup {0}
CoreOps == {"create_trip", "get_trip", "delete_trip",
            "add_location_to_trip", "get_all_locations"}

InitAuth ==
    /\ trips = <<>>
    /\ locs = <<>>
    /\ pend = Idle
    /\ resp = NoResp
    /\ sess = [c \in Clients |-> 0]

NextAuth ==
    \/ \E c \in Clients :
        \/ \E name \in LoginNames, pw \in LoginPasswords : Login(c, name, pw)
        \/ Logout(c)
        \/ Unauthorized(c, "logout")
        \/ \E op \in CoreOps : Unauthorized(c, op)
    \/ \E u \in Users :
        \/ CreateTrip("whole", u, Kyoto)
        \/ GetAllLocations(u)
        \/ \E t \in TripIds :
            \/ GetTrip(u, t)
            \/ DeleteTrip("whole", u, t)
            \/ AddLocationToTrip("whole", u, t, Gion)

SpecAuth == InitAuth /\ [][NextAuth]_vars

(***************************************************************************)
(* C1.  A trip request (get_trip, update_trip, delete_trip) by a user who  *)
(* is not the owner of the trip with that id answers 404, and leaves the   *)
(* trip and every location untouched.                                      *)
(***************************************************************************)
TripOps == {"get_trip", "update_trip", "delete_trip"}

C1_ForeignTripNotFound ==
    [][\A t \in DOMAIN trips :
          (resp'.op \in TripOps /\ resp'.id = t /\ resp'.user # trips[t].user_id)
          => /\ resp'.status = 404
             /\ resp'.error = "Trip not found or access denied"
             /\ trips' = trips
             /\ locs' = locs]_vars

\* A user was refused the delete of another user's trip that has locations.
C1_Witness ==
    /\ resp.op = "delete_trip"
    /\ resp.status = 404
    /\ resp.id \in DOMAIN trips
    /\ trips[resp.id].user_id # resp.user
    /\ TripLocs(locs, resp.id) # {}

(***************************************************************************)
(* C6.  After a successful delete_trip of a trip with N locations the trip *)
(* and its N locations are gone and get_trip / get_location on their ids   *)
(* answer 404 to every user.                                               *)
(***************************************************************************)
\* The step of a successful delete_trip removes the trip and every location
\* it had, and a fetch of any of them now answers 404 to every user.
C6_Deleted ==
    (resp'.op = "delete_trip" /\ resp'.status = 200)
    => /\ resp'.id \notin DOMAIN trips'
       /\ resp'.gone = TripLocs(locs, resp'.id)
       /\ resp'.gone \cap DOMAIN locs' = {}
       /\ \A u \in Users :
            /\ get_trip(trips', locs', u, resp'.id).status = 404
            /\ \A l \in resp'.gone :
                   get_location(trips', locs', u, l).status = 404

\* The claim as written: the fetches answer 404 from then on, here after one
\* more request.
C6_StillNotFound ==
    (resp.op = "delete_trip" /\ resp.status = 200)
    => \A u \in Users :
         /\ get_trip(trips', locs', u, resp.id).status = 404
         /\ \A l \in resp.gone : get_location(trips', locs', u, l).status = 404

C6_NotFoundForever == [][C6_Deleted /\ C6_StillNotFound]_vars

\* An id that is not in a table comes into it only by a create that is
\* given that id.
C6_AbsentUntilCreated ==
    /\ \A t \in TripIds :
          (t \notin DOMAIN trips /\ t \in DOMAIN trips')
          => /\ resp'.op = "create_trip"
             /\ resp'.status = 201
             /\ resp'.ids = <<t>>
    /\ \A l \in LocIds :
          (l \notin DOMAIN locs /\ l \in DOMAIN locs')
          => /\ resp'.op \in {"create_location", "add_location_to_trip",
                              "bulk_add_locations"}
             /\ resp'.status = 201
             /\ \E i \in 1..Len(resp'.ids) : resp'.ids[i] = l

\* A fetch of an id that is in no table answers 404 to every user.
C6_AbsentIsNotFound ==
    \A u \in Users :
        /\ \A t \in TripIds \ DOMAIN trips :
               get_trip(trips, locs, u, t).status = 404
        /\ \A l \in LocIds \ DOMAIN locs :
               get_location(trips, locs, u, l).status = 404

\* C6 as amended: gone after the delete, and 404 until a later create is
\* given the freed id.
C6_NotFoundUntilIdReused ==
    /\ []C6_AbsentIsNotFound
    /\ [][C6_Deleted /\ C6_AbsentUntilCreated]_vars

\* A trip with locations has just been deleted.
C6_Witness ==
    /\ resp.op = "delete_trip"
    /\ resp.status = 200
    /\ resp.gone # {}

(***************************************************************************)
(* C2.  get_location, update_location and delete_location succeed only for *)
(* the owner of the location's trip; any other user is answered 404 and    *)
(* nothing changes.  The two listings hold only locations of the caller's  *)
(* own trips.                                                              *)
(***************************************************************************)
LocOps == {"get_location", "update_location", "delete_location"}
LocLists == {"get_trip_locations", "get_all_locations"}

\* The owner of location l's parent trip (0 when that trip is gone).
LocOwner(T, L, l) ==
    IF L[l].trip_id \in DOMAIN T THEN T[L[l].trip_id].user_id ELSE 0

C2_LocationsOfOwnerOnly ==
    [][/\ \A l \in DOMAIN locs :
            (resp'.op \in LocOps /\ resp'.id = l
                /\ resp'.user # LocOwner(trips, locs, l))
            => /\ resp'.status = 404
               /\ resp'.error = "Location not found or access denied"
               /\ locs' = locs
               /\ trips' = trips
       /\ (resp'.op \in LocOps /\ resp'.status = 200)
            => /\ resp'.id \in DOMAIN locs
               /\ resp'.user = LocOwner(trips, locs, resp'.id)
       /\ resp'.op \in LocLists
            => \A i \in 1..Len(resp'.ids) :
                  /\ resp'.ids[i] \in DOMAIN locs
                  /\ resp'.user = LocOwner(trips, locs, resp'.ids[i])]_vars

\* A user was refused the update of a location of another user's trip.
C2_Witness ==
    /\ resp.op = "update_location"
    /\ resp.status = 404
    /\ resp.id \in DOMAIN locs
    /\ LocOwner(trips, locs, resp.id) \notin {0, resp.user}

(***************************************************************************)
(* C3.  A user gets the same answer (status and body) for an id of another *)
(* user's trip or location as for that id in the same tables without that  *)
(* trip or location: a 404 that tells nothing about the row.               *)
(***************************************************************************)
Without(table, id) == [x \in DOMAIN table \ {id} |-> table[x]]
\* The tables without trip t and the locations under it.
WithoutTripLocs(L, t) == [x \in DOMAIN L \ TripLocs(L, t) |-> L[x]]

C3_TripBodies == {Kyoto, Rename, TripBody(NoStr, BadStr, Absent),
                  TripBody(NoStr, Absent, Absent)}

C3_AbsentOrForeignAlike ==
    \A u \in Users :
        /\ \A t \in DOMAIN trips : trips[t].user_id # u =>
             LET T0 == Without(trips, t)
                 L0 == WithoutTripLocs(locs, t)
             IN  /\ get_trip(trips, locs, u, t) = get_trip(T0, L0, u, t)
                 /\ get_trip(trips, locs, u, t).status = 404
                 /\ delete_trip(trips, locs, u, t) = delete_trip(T0, L0, u, t)
                 /\ get_trip_locations(trips, locs, u, t)
                      = get_trip_locations(T0, L0, u, t)
                 /\ \A b \in C3_TripBodies :
                      update_trip(trips, u, t, b) = update_trip(T0, u, t, b)
                 /\ \A b \in NewLocBodies :
                      /\ add_location_to_trip(trips, u, t, b)
                           = add_location_to_trip(T0, u, t, b)
                      /\ add_location_to_trip(trips, u, t, b).status = 404
                      /\ create_location(trips, u, [b EXCEPT !.trip_id = t])
                           = create_location(T0, u, [b EXCEPT !.trip_id = t])
                 /\ \A items \in BulkLists :
                      bulk_add_locations(trips, u, t, items)
                        = bulk_add_locations(T0, u, t, items)
        /\ \A l \in DOMAIN locs : LocOwner(trips, locs, l) # u =>
             LET L0 == Without(locs, l)
             IN  /\ get_location(trips, locs, u, l) = get_location(trips, L0, u, l)
                 /\ get_location(trips, locs, u, l).status = 404
                 /\ delete_location(trips, locs, u, l)
                      = delete_location(trips, L0, u, l)
                 /\ \A b \in UpdLocBodies :
                      update_location(trips, locs, u, l, b)
                        = update_location(trips, L0, u, l, b)

\* A user asked for a location of another user's trip and got the 404.
C3_Witness ==
    /\ resp.op = "get_location"
    /\ resp.status = 404
    /\ resp.id \in DOMAIN locs
    /\ LocOwner(trips, locs, resp.id) \notin {0, resp.user}

(***************************************************************************)
(* C5.  Every stored location has latitude in [-90, 90] and longitude in   *)
(* [-180, 180], whatever the write path.                                   *)
(***************************************************************************)
C5_CoordinatesInRange ==
    \A l \in DOMAIN locs :
        /\ -9000000 <= locs[l].latitude /\ locs[l].latitude <= 9000000
        /\ -18000000 <= locs[l].longitude /\ locs[l].longitude <= 18000000

\* A write with a longitude out of range was refused while a location at the
\* end of the latitude range is stored.
C5_Witness ==
    /\ resp.op \in {"create_location", "add_location_to_trip"}
    /\ resp.status = 400
    /\ resp.error = "Invalid coordinates"
    /\ \E l \in DOMAIN locs : locs[l].latitude = -9000000

(***************************************************************************)
(* C4.  Every stored trip has end_date >= start_date, after any creates    *)
(* and updates, overlapping ones included.                                 *)
(***************************************************************************)
C4_DatesOrdered ==
    \A t \in DOMAIN trips : trips[t].end_date >= trips[t].start_date

(***************************************************************************)
(* C7.  delete_trip and bulk_add_locations are all-or-nothing.  A request  *)
(* of either that answers 500 has changed nothing; the commit of a         *)
(* delete_trip removes the trip and every location it marked in one step,  *)
(* or none of them; the commit of a bulk insert adds every row it holds in *)
(* one step, or none.  (A location another request commits after the       *)
(* handler read trip.locations is not part of the delete's transaction.)   *)
(***************************************************************************)
TxnOps == {"delete_trip", "bulk_add_locations"}

\* The rows of `table` that a step removed, and the number it added.
Removed(old, new) == DOMAIN old \ DOMAIN new
Added(old, new) == Cardinality(DOMAIN new \ DOMAIN old)

\* The step ends a delete_trip whose transaction is txn, for trip t.
C7_DeleteStep(t, txn) ==
    \/ /\ resp'.status = 500
       /\ trips' = trips /\ locs' = locs
    \/ /\ resp'.status = 200
       /\ t \notin DOMAIN trips'
       /\ txn.locDel \cap DOMAIN locs' = {}
       /\ Removed(trips, trips') \subseteq {t}
       /\ Removed(locs, locs') = txn.locDel \cap DOMAIN locs
       /\ Added(trips, trips') = 0 /\ Added(locs, locs') = 0

\* The step ends a bulk insert whose transaction is txn.
C7_BulkStep(txn) ==
    \/ /\ resp'.status = 500
       /\ trips' = trips /\ locs' = locs
    \/ /\ resp'.status = 201
       /\ resp'.count = Len(txn.locIns)
       /\ Added(locs, locs') = Len(txn.locIns)
       /\ \A i \in 1..Len(txn.locIns) :
              /\ resp'.ids[i] \in DOMAIN locs' \ DOMAIN locs
              /\ locs'[resp'.ids[i]] = txn.locIns[i]
       /\ Removed(locs, locs') = {} /\ trips' = trips

C7_AllOrNothing ==
    [][/\ (resp'.op \in TxnOps /\ resp'.status = 500)
            => (trips' = trips /\ locs' = locs)
       /\ (pend # Idle /\ pend' = Idle /\ pend.rq.op = "delete_trip")
            => C7_DeleteStep(pend.rq.id, pend.txn)
       /\ (pend # Idle /\ pend' = Idle /\ pend.rq.op = "bulk_add_locations")
            => C7_BulkStep(pend.txn)
       /\ (pend' = pend /\ resp'.op = "delete_trip" /\ resp'.status # 404)
            => C7_DeleteStep(resp'.id,
                             delete_trip(trips, locs, resp'.user, resp'.id).txn)
       /\ (pend' = pend /\ resp'.op = "bulk_add_locations"
             /\ resp'.status \in {201, 500})
            => C7_BulkStep(bulk_add_locations(trips, resp'.user, resp'.id,
                                              resp'.items).txn)]_vars

\* The commit of a delete_trip of a trip with locations has just failed.
C7_Witness ==
    /\ resp.op = "delete_trip"
    /\ resp.status = 500
    /\ resp.error = "Database error"
    /\ resp.id \in DOMAIN trips
    /\ TripLocs(locs, resp.id) # {}

(***************************************************************************)
(* C8.  A bulk insert to an owned trip with at least one valid item        *)
(* answers 201, persists exactly the valid items and reports their number; *)
(* the invalid items (out of range, non-numeric, null, incomplete) are     *)
(* skipped.                                                                *)
(***************************************************************************)
\* An item the specification calls valid: a name and two numbers in range.
C8_Numeric(j) == j.k \in {"num", "numstr"}
C8_Valid(b) ==
    /\ b.name # NoStr
    /\ C8_Numeric(b.latitude) /\ -9000000 <= b.latitude.n
    /\ b.latitude.n <= 9000000
    /\ C8_Numeric(b.longitude) /\ -18000000 <= b.longitude.n
    /\ b.longitude.n <= 18000000
C8_ValidItems(items) == {i \in 1..Len(items) : C8_Valid(items[i])}

C8_ValidItemsPersisted ==
    (/\ resp.op = "bulk_add_locations"
     /\ resp.status # 404
     /\ C8_ValidItems(resp.items) # {})
        => /\ resp.status = 201
           /\ resp.count = Cardinality(C8_ValidItems(resp.items))
           /\ Len(resp.ids) = resp.count
           /\ \A k \in 1..Len(resp.ids) : resp.ids[k] \in DOMAIN locs
           /\ \A i \in C8_ValidItems(resp.items) :
                \E k \in 1..Len(resp.ids) :
                    /\ locs[resp.ids[k]].name = resp.items[i].name
                    /\ locs[resp.ids[k]].latitude = resp.items[i].latitude.n
                    /\ locs[resp.ids[k]].longitude = resp.items[i].longitude.n
                    /\ locs[resp.ids[k]].trip_id = resp.id

(***************************************************************************)
(* C9.  A bulk insert to an owned trip with no valid item, the empty list  *)
(* included, answers 400 and persists no row.                              *)
(***************************************************************************)
C9_NoValidItemRejected ==
    (/\ resp.op = "bulk_add_locations"
     /\ resp.status # 404
     /\ C8_ValidItems(resp.items) = {})
        => /\ resp.status = 400
           /\ resp.ids = <<>>

(***************************************************************************)
(* C10.  A search with well-formed arguments answers 200 with exactly the  *)
(* locations of the caller's trips whose Haversine distance from the       *)
(* center is at most the radius (10 km when absent), each once, and count  *)
(* is their number.                                                        *)
(***************************************************************************)
C10_WellFormed(a) ==
    /\ a.latitude.k = "numstr" /\ -9000000 <= a.latitude.n
    /\ a.latitude.n <= 9000000
    /\ a.longitude.k = "numstr" /\ -18000000 <= a.longitude.n
    /\ a.longitude.n <= 18000000
    /\ a.radius.k = "absent" \/ (a.radius.k = "numstr" /\ a.radius.n > 0)

C10_Radius(a) == IF a.radius.k = "absent" THEN 10000000 ELSE a.radius.n

C10_Expected(u, a) ==
    {l \in DOMAIN locs :
        /\ LocOwner(trips, locs, l) = u
        /\ Haversine(a.latitude.n, a.longitude.n,
                     locs[l].latitude, locs[l].longitude) <= C10_Radius(a)}

C10_NearbyExact ==
    resp.op = "get_nearby_locations" =>
        LET a == resp.items[1]
        IN  /\ resp.status = 200 <=> C10_WellFormed(a)
            /\ resp.status = 200 =>
                 /\ {resp.ids[i] : i \in 1..Len(resp.ids)}
                        = C10_Expected(resp.user, a)
                 /\ Len(resp.ids) = Cardinality(C10_Expected(resp.user, a))
                 /\ resp.count = Len(resp.ids)

\* A search returned the caller's location and left out another user's
\* location that lies inside the radius.
C10_Witness ==
    /\ resp.op = "get_nearby_locations"
    /\ resp.status = 200
    /\ resp.count = 1
    /\ \E l \in DOMAIN locs :
          /\ LocOwner(trips, locs, l) # resp.user
          /\ Haversine(resp.items[1].latitude.n, resp.items[1].longitude.n,
                       locs[l].latitude, locs[l].longitude)
                 <= C10_Radius(resp.items[1])

(***************************************************************************)
(* C11.  The locations of a search result are in non-decreasing order of   *)
(* their Haversine distance from the center, and locations at the same     *)
(* distance are in the order of their ids.                                 *)
(***************************************************************************)
C11_Distance(i) ==
    Haversine(resp.items[1].latitude.n, resp.items[1].longitude.n,
              locs[resp.ids[i]].latitude, locs[resp.ids[i]].longitude)

C11_SortedByDistance ==
    (resp.op = "get_nearby_locations" /\ resp.status = 200) =>
        \A i, j \in 1..Len(resp.ids) :
            i < j => \/ C11_Distance(i) < C11_Distance(j)
                     \/ /\ C11_Distance(i) = C11_Distance(j)
                        /\ resp.ids[i] < resp.ids[j]

(***************************************************************************)
(* C12.  A request to create a location, or locations in bulk, under a     *)
(* trip id that is not a trip of the caller answers 404, whatever its      *)
(* body, and stores no location.                                           *)
(***************************************************************************)
CreateOps == {"add_location_to_trip", "create_location", "bulk_add_locations"}

C12_ForeignTripNotFoundFirst ==
    [][(/\ resp'.op \in CreateOps
        /\ resp'.id # 0
        /\ \/ resp'.id \notin DOMAIN trips
           \/ trips[resp'.id].user_id # resp'.user)
          => /\ resp'.status = 404
             /\ locs' = locs]_vars

(***************************************************************************)
(* C13.  An update_trip or update_location that answers 400 changes no     *)
(* field of any trip or location, the fields it had set before the invalid *)
(* one included, and no later request stores them: every step that changes *)
(* a table is a request answered 200 or 201.                               *)
(***************************************************************************)
UpdateOps == {"update_trip", "update_location"}

C13_RefusedUpdateChangesNothing ==
    [][/\ (resp'.op \in UpdateOps /\ resp'.status = 400)
            => (trips' = trips /\ locs' = locs)
       /\ (trips' # trips \/ locs' # locs)
            => resp'.status \in {200, 201}]_vars

\* An update of the caller's own location was refused with 400.
C13_Witness ==
    /\ resp.op = "update_location"
    /\ resp.status = 400
    /\ resp.error = "Invalid longitude"
    /\ resp.id \in DOMAIN locs
    /\ LocOwner(trips, locs, resp.id) = resp.user

(***************************************************************************)
(* C14.  A search answers 400 when the latitude or the longitude is        *)
(* missing, not a number or out of range, or the radius is not a number or *)
(* not above 0, and 200 in every other case; without a radius it answers   *)
(* as with radius 10 km; an empty result is a 200 with count 0; the tables *)
(* are never changed.                                                      *)
(***************************************************************************)
C14_Valid(a) ==
    /\ a.latitude.k = "numstr" /\ -9000000 <= a.latitude.n
    /\ a.latitude.n <= 9000000
    /\ a.longitude.k = "numstr" /\ -18000000 <= a.longitude.n
    /\ a.longitude.n <= 18000000
    /\ a.radius.k = "absent" \/ (a.radius.k = "numstr" /\ a.radius.n > 0)

C14_ValidationExact ==
    [][resp'.op = "get_nearby_locations" =>
         LET a == resp'.items[1]
         IN  /\ resp'.status = IF C14_Valid(a) THEN 200 ELSE 400
             /\ resp'.status = 200 => resp'.count = Len(resp'.ids)
             /\ (resp'.status = 200 /\ a.radius.k = "absent") =>
                   resp'.ids = get_nearby_locations(trips, locs, resp'.user,
                                  [a EXCEPT !.radius = NumStr(10000000)]).ids
             /\ trips' = trips
             /\ locs' = locs]_vars

(***************************************************************************)
(* C15.  A request to create a location under a trip of the caller answers *)
(* 201 or, when a field is missing or a coordinate is invalid, 400, and    *)
(* with no other error.                                                    *)
(***************************************************************************)
C15_CreatedOrRefused ==
    (/\ resp.op \in {"add_location_to_trip", "create_location"}
     /\ resp.id \in DOMAIN trips
     /\ trips[resp.id].user_id = resp.user)
        => resp.status \in {201, 400}

(***************************************************************************)
(* C16.  Requests of one user leave the other users' data alone, however   *)
(* they overlap: a step of a request of user u removes or changes no trip  *)
(* of another user and no location of another user's trip.                 *)
(***************************************************************************)
C16_OthersUntouched ==
    [][/\ \A t \in DOMAIN trips :
             trips[t].user_id # resp'.user
                => (t \in DOMAIN trips' /\ trips'[t] = trips[t])
       /\ \A l \in DOMAIN locs :
             LocOwner(trips, locs, l) \notin {0, resp'.user}
                => (l \in DOMAIN locs' /\ locs'[l] = locs[l])]_vars

(***************************************************************************)
(* C17.  Overlapping updates of one trip or location by its owner are      *)
(* resolved last-write-wins: every one of them is answered 200, and when   *)
(* one commits, each field its body sets has the body's value in the       *)
(* table, whatever the other requests wrote before.                        *)
(***************************************************************************)
C17_TripWritten(row, b) ==
    /\ b.destination # NoStr => row.destination = b.destination
    /\ Has(b.start_date) => row.start_date = b.start_date.n
    /\ Has(b.end_date) => row.end_date = b.end_date.n

C17_LocWritten(row, b) ==
    /\ b.name # NoStr => row.name = b.name
    /\ Has(b.latitude) => row.latitude = b.latitude.n
    /\ Has(b.longitude) => row.longitude = b.longitude.n

C17_LastWriteWins ==
    [][/\ (pend # Idle /\ pend' = Idle) => resp'.status = 200
       /\ (resp'.op = "update_trip" /\ resp'.status = 200)
            => C17_TripWritten(trips'[resp'.id], resp'.items[1])
       /\ (resp'.op = "update_location" /\ resp'.status = 200)
            => C17_LocWritten(locs'[resp'.id], resp'.items[1])]_vars

\* Amended: the fields that win are those a request changed from the value
\* it had read.  Every overlapping update is answered 200; an update that
\* did not overlap leaves each field of its body at the body's value; the
\* commit of an update that was suspended writes the body's value to each
\* field the request had changed, and leaves every other field, of this and
\* of every other row, as the requests before it wrote them.
C17_Value(b, c) ==
    CASE c = "destination" -> b.destination
      [] c = "name"        -> b.name
      [] OTHER             -> b[c].n

C17_Committed(table, after, upd, b) ==
    /\ DOMAIN after = DOMAIN table
    /\ \A id \in DOMAIN table :
         \A c \in DOMAIN table[id] :
            after[id][c] =
               IF \E x \in upd : x.id = id /\ c \in x.cols
               THEN C17_Value(b, c) ELSE table[id][c]

C17_ChangedFieldsWin ==
    [][/\ (pend # Idle /\ pend' = Idle) =>
            /\ resp'.status = 200
            /\ C17_Committed(trips, trips', pend.txn.tripUpd, pend.rq.items[1])
            /\ C17_Committed(locs, locs', pend.txn.locUpd, pend.rq.items[1])
       /\ (pend' = pend /\ resp'.op = "update_trip" /\ resp'.status = 200)
            => C17_TripWritten(trips'[resp'.id], resp'.items[1])
       /\ (pend' = pend /\ resp'.op = "update_location" /\ resp'.status = 200)
            => C17_LocWritten(locs'[resp'.id], resp'.items[1])]_vars

\* An update that set the destination to the value it had read has committed
\* after an overlapping rename, and the rename stands.
C17_Witness ==
    /\ resp.op = "update_trip"
    /\ resp.status = 200
    /\ resp.items[1].destination = "Kyoto"
    /\ trips[resp.id].destination = "Oslo"

(***************************************************************************)
(* C18.  Every stored location belongs to a stored trip, after any         *)
(* sequence and any overlap of requests that create and delete locations   *)
(* and trips.                                                              *)
(***************************************************************************)
C18_NoOrphans == \A l \in DOMAIN locs : locs[l].trip_id \in DOMAIN trips

(***************************************************************************)
(* C19.  An update_trip or update_location answered 200 changes only the   *)
(* row it names and, in it, only the fields its body holds: a field that   *)
(* is not in the body, the row's owner (trip.user_id, location.trip_id),   *)
(* the set of ids and every other trip and location stay as they were.     *)
(***************************************************************************)
C19_OthersKept(table, after, id) ==
    /\ DOMAIN after = DOMAIN table
    /\ \A x \in DOMAIN table : x # id => after[x] = table[x]

C19_OnlyPresentFieldsChange ==
    [][/\ (resp'.op = "update_trip" /\ resp'.status = 200) =>
            LET b == resp'.items[1]
                old == trips[resp'.id]
                new == trips'[resp'.id]
            IN  /\ C19_OthersKept(trips, trips', resp'.id)
                /\ locs' = locs
                /\ new.user_id = old.user_id
                /\ b.destination = NoStr => new.destination = old.destination
                /\ ~Has(b.start_date) => new.start_date = old.start_date
                /\ ~Has(b.end_date) => new.end_date = old.end_date
       /\ (resp'.op = "update_location" /\ resp'.status = 200) =>
            LET b == resp'.items[1]
                old == locs[resp'.id]
                new == locs'[resp'.id]
            IN  /\ C19_OthersKept(locs, locs', resp'.id)
                /\ trips' = trips
                /\ new.trip_id = old.trip_id
                /\ b.name = NoStr => new.name = old.name
                /\ ~Has(b.latitude) => new.latitude = old.latitude
                /\ ~Has(b.longitude) => new.longitude = old.longitude]_vars

\* An update of the latitude alone has moved a location and kept its name
\* and longitude.
C19_Witness ==
    /\ resp.op = "update_location"
    /\ resp.status = 200
    /\ resp.items[1].name = NoStr
    /\ ~Has(resp.items[1].longitude)
    /\ locs[resp.id].latitude = -9000000
    /\ locs[resp.id].name = "Kamo"
    /\ locs[resp.id].longitude = -18000000

(***************************************************************************)
(* C20.  A trip or location request is handled for user u only while a     *)
(* session is logged in as u: a session becomes logged in as u only by a   *)
(* login with u's username and password, and stops being so at its logout  *)
(* or at a login as another user; a request of a session that is not       *)
(* logged in (never, after a failed login, after logout) answers 401 and   *)
(* changes no table.                                                       *)
(***************************************************************************)
C20_LoginOf(c, u) ==
    /\ resp'.op = "login"
    /\ resp'.status = 200
    /\ resp'.items[1].client = c
    /\ resp'.items[1].username = u
    /\ resp'.items[1].password = u

C20_LogoutOf(c) ==
    /\ resp'.op = "logout"
    /\ resp'.status = 200
    /\ resp'.items[1].client = c

C20_OnlyLoggedIn ==
    [][/\ \A c \in Clients :
            sess'[c] # sess[c] =>
                IF sess'[c] = 0 THEN C20_LogoutOf(c)
                ELSE sess'[c] \in Users /\ C20_LoginOf(c, sess'[c])
       /\ resp'.op \in CoreOps =>
            \/ /\ resp'.status # 401
               /\ resp'.user \in Users
               /\ \E c \in Clients : sess[c] = resp'.user
            \/ /\ resp'.status = 401
               /\ sess[resp'.items[1].client] = 0
               /\ trips' = trips
               /\ locs' = locs
       /\ (resp'.op \in {"login", "logout"} \/ resp'.status = 401)
            => (trips' = trips /\ locs' = locs)]_vars

\* A session that logged in and out again was refused a request, while the
\* trip it had created is still stored.
C20_Witness ==
    /\ resp.op = "create_trip"
    /\ resp.status = 401
    /\ \E t \in DOMAIN trips : \A c \in Clients : sess[c] # trips[t].user_id

=============================================================================
